---- MODULE Spec2Model ----
(***************************************************************************)
(* The operation record of rust/automerge/src/types.rs: an Op, its         *)
(* successor links (add_succ / remove_succ), the counter ledger folded     *)
(* into a Put(Counter) op, and the visibility and value queries.           *)
(***************************************************************************)
EXTENDS Integers, Sequences, FiniteSets, TLC

(***************************************************************************)
(* Bounds of the model.                                                    *)
(***************************************************************************)
\* clocks range over [actor -> 0 .. MaxClock]
MaxClock == 3
\* longest increment ledger explored
MaxLedger == 3
\* the running total stays within -MaxTotal .. MaxTotal
MaxTotal == 9
\* raw calls made before a round trip starts
MaxPrefix == 2

(***************************************************************************)
(* Identifiers.  OpId(u32, u32) is the pair <<counter, actor index>>.      *)
(***************************************************************************)
\* the actor-table indices in use
ActorIdx == {0, 1}

OpId_new(counter, actor) == <<counter, actor>>

OpId_counter(id) == id[1]

OpId_actor(id) == id[2]

\* The session's actor table, index -> actor id bytes.  The bytes run
\* against the indices, so that the byte order is not the index order.
ActorTable == [i \in ActorIdx |-> <<Cardinality(ActorIdx) - i>>]

RECURSIVE BytesCmp(_, _)
\* Ord for ActorId: lexicographic order of the bytes.
BytesCmp(a, b) ==
    IF a = <<>> /\ b = <<>> THEN "Equal"
    ELSE IF a = <<>> THEN "Less"
    ELSE IF b = <<>> THEN "Greater"
    ELSE IF Head(a) < Head(b) THEN "Less"
    ELSE IF Head(a) > Head(b) THEN "Greater"
    ELSE BytesCmp(Tail(a), Tail(b))

IntCmp(a, b) == IF a < b THEN "Less" ELSE IF a > b THEN "Greater" ELSE "Equal"

\* lamport_cmp that compares the actor indices, as the derived Ord of OpId does
lamport_cmp_ByIndex(self, other, actors) ==
    IF IntCmp(self[1], other[1]) # "Equal"
    THEN IntCmp(self[1], other[1])
    ELSE IntCmp(self[2], other[2])

\* OpId::lamport_cmp: the counter first, then the actor ids looked up in the table.
lamport_cmp(self, other, actors) ==
    IF IntCmp(self[1], other[1]) # "Equal"
    THEN IntCmp(self[1], other[1])
    ELSE BytesCmp(actors[self[2]], actors[other[2]])

ROOT == OpId_new(0, 0)

HEAD == OpId_new(0, 0)

(***************************************************************************)
(* Scalar values and op types.  Every scalar and every action is a record  *)
(* of one shape; the fields a variant does not carry keep their defaults.  *)
(***************************************************************************)
\* an integer payload is hi * 2^63 + v; hi is 0 for every small number
NullScalar == [type |-> "Null", v |-> 0, hi |-> 0, start |-> 0, current |-> 0,
               increments |-> <<>>]

ScalarStr(i) == [NullScalar EXCEPT !.type = "Str", !.v = i]

ScalarInt(i) == [NullScalar EXCEPT !.type = "Int", !.v = i]

\* Counter::from(n): a counter that starts at n with an empty ledger.
CounterFrom(n) == [NullScalar EXCEPT !.type = "Counter", !.start = n, !.current = n]

NoAction == [kind |-> "Delete", obj |-> "", n |-> 0, hi |-> 0, value |-> NullScalar,
             expand |-> FALSE, name |-> ""]

Make(t) == [NoAction EXCEPT !.kind = "Make", !.obj = t]

Delete == NoAction

Increment(n) == [NoAction EXCEPT !.kind = "Increment", !.n = n]

Put(s) == [NoAction EXCEPT !.kind = "Put", !.value = s]

MarkBegin(e, name, s) ==
    [NoAction EXCEPT !.kind = "MarkBegin", !.expand = e, !.name = name, !.value = s]

MarkEnd(e) == [NoAction EXCEPT !.kind = "MarkEnd", !.expand = e]

\* OpType::is_mark
OpType_is_mark(a) == a.kind \in {"MarkBegin", "MarkEnd"}

KeyMap(n) == [kind |-> "Map", prop |-> n, elem |-> HEAD]

KeySeq(e) == [kind |-> "Seq", prop |-> 0, elem |-> e]

\* struct Op
MkOp(id, action, key, insert, pred) ==
    [id |-> id, action |-> action, key |-> key, succ |-> <<>>, pred |-> pred,
     insert |-> insert]

(***************************************************************************)
(* OpIds: the sorted, duplicate-free id list behind succ and pred.         *)
(***************************************************************************)
Range(s) == {s[i] : i \in 1 .. Len(s)}

InsertAt(s, i, x) == SubSeq(s, 1, i - 1) \o <<x>> \o SubSeq(s, i, Len(s))

\* OpIds::add: insert before the first element that is not less than opid;
\* an id that is already there is not added again.
\* The ordering is the closure |a, b| a.lamport_cmp(b, actors), given by the
\* actor table it captures.
OpIds_add(s, opid, actors) ==
    LET hits == {i \in 1 .. Len(s) :
                    lamport_cmp(s[i], opid, actors) \in {"Greater", "Equal"}}
    IN  IF hits = {} THEN Append(s, opid)
        ELSE LET idx == CHOOSE i \in hits : \A j \in hits : i <= j
             IN  IF s[idx] = opid THEN s ELSE InsertAt(s, idx, opid)

\* OpIds::contains, as used through iter().any(..)
Contains(s, x) == \E i \in 1 .. Len(s) : s[i] = x

(***************************************************************************)
(* Clock: a version vector, actor index -> highest op counter seen.        *)
(***************************************************************************)
Clocks == [ActorIdx -> 0 .. MaxClock]

\* Clock::covers
covers(clock, id) == clock[OpId_actor(id)] >= OpId_counter(id)

\* Option<&Clock>
None == [some |-> FALSE, clock |-> [i \in ActorIdx |-> 0]]

Some(c) == [some |-> TRUE, clock |-> c]

ClockOpts == {None} \cup {Some(c) : c \in Clocks}

\* the clock that has seen every op of every actor
FullClock == [i \in ActorIdx |-> MaxClock]

(***************************************************************************)
(* impl Op                                                                 *)
(***************************************************************************)
is_inc(self) == self.action.kind = "Increment"

is_counter(self) == self.action.kind = "Put" /\ self.action.value.type = "Counter"

is_mark(self) == OpType_is_mark(self.action)

is_delete(self) == self.action.kind = "Delete"

\* the ids recorded in a counter's ledger (the HashSet built by succ_iter)
LedgerIds(c) == {c.increments[i][1] : i \in 1 .. Len(c.increments)}

\* increment with the running total left alone
increment_NoTotal(self, n, id) ==
    IF is_counter(self)
    THEN [self EXCEPT !.action.value.increments = Append(@, <<id, n>>)]
    ELSE self

\* increment that does not look at the action it is applied to
increment_AnyAction(self, n, id) ==
    [self EXCEPT !.action.value.current = @ + n,
                 !.action.value.increments = Append(@, <<id, n>>)]

increment(self, n, id) ==
    IF is_counter(self)
    THEN [self EXCEPT !.action.value.current = @ + n,
                      !.action.value.increments = Append(@, <<id, n>>)]
    ELSE self

\* add_succ that pushes the id at the end of succ instead of inserting it in order
add_succ_Unordered(self, op, actors) ==
    LET linked == [self EXCEPT !.succ =
                      IF \E i \in 1 .. Len(@) : @[i] = op.id THEN @ ELSE Append(@, op.id)]
    IN  IF op.action.kind = "Increment"
        THEN increment(linked, op.action.n, op.id)
        ELSE linked

\* add_succ that records a successor only when it is an increment
add_succ_SkipsPlain(self, op, actors) ==
    IF op.action.kind = "Increment"
    THEN increment([self EXCEPT !.succ = OpIds_add(@, op.id, actors)],
                   op.action.n, op.id)
    ELSE self

add_succ(self, op, actors) ==
    LET linked == [self EXCEPT !.succ = OpIds_add(@, op.id, actors)]
    IN  IF op.action.kind = "Increment"
        THEN increment(linked, op.action.n, op.id)
        ELSE linked

\* remove_succ that subtracts the delta and leaves the ledger entry behind
remove_succ_KeepsLedger(self, op) ==
    LET KeepId(id) == id # op.id
        unlinked == [self EXCEPT !.succ = SelectSeq(@, KeepId)]
    IN  IF is_counter(self) /\ op.action.kind = "Increment"
        THEN [unlinked EXCEPT !.action.value.current = @ - op.action.n]
        ELSE unlinked

remove_succ(self, op) ==
    LET KeepId(id) == id # op.id
        KeepInc(e) == e[1] # op.id
        unlinked == [self EXCEPT !.succ = SelectSeq(@, KeepId)]
    IN  IF is_counter(self) /\ op.action.kind = "Increment"
        THEN [unlinked EXCEPT !.action.value.current = @ - op.action.n,
                              !.action.value.increments = SelectSeq(@, KeepInc)]
        ELSE unlinked

\* succ_iter without the ledger filter
succ_iter_Unfiltered(self) == self.succ

\* SuccIter, collected: the successors next() yields, in order.
succ_iter(self) ==
    IF is_counter(self)
    THEN LET Fresh(i) == i \notin LedgerIds(self.action.value)
         IN  SelectSeq(self.succ, Fresh)
    ELSE self.succ

incs(self) ==
    IF is_counter(self) THEN Len(self.action.value.increments) ELSE 0

\* visible that forgets the successors of a plain op
visible_IgnoresSucc(self) ==
    IF is_inc(self) \/ is_mark(self) THEN FALSE
    ELSE IF is_counter(self) THEN Len(self.succ) <= incs(self)
    ELSE TRUE

visible(self) ==
    IF is_inc(self) \/ is_mark(self) THEN FALSE
    ELSE IF is_counter(self) THEN Len(self.succ) <= incs(self)
    ELSE self.succ = <<>>

\* visible_at that lets marks through when a clock is given
visible_at_LetsMarksThrough(self, clock) ==
    IF clock.some
    THEN IF is_inc(self) THEN FALSE
         ELSE /\ covers(clock.clock, self.id)
              /\ ~ \E i \in Range(succ_iter(self)) : covers(clock.clock, i)
    ELSE visible(self)

\* visible_at with the cover test of the successors negated: it asks for
\* every successor to be covered
visible_at_FlippedCover(self, clock) ==
    IF clock.some
    THEN IF is_inc(self) \/ is_mark(self) THEN FALSE
         ELSE /\ covers(clock.clock, self.id)
              /\ ~ \E i \in Range(succ_iter(self)) : ~covers(clock.clock, i)
    ELSE visible(self)

visible_at(self, clock) ==
    IF clock.some
    THEN IF is_inc(self) \/ is_mark(self) THEN FALSE
         ELSE /\ covers(clock.clock, self.id)
              /\ ~ \E i \in Range(succ_iter(self)) : covers(clock.clock, i)
    ELSE visible(self)

\* valid_mark_anchor that looks at the action only
valid_mark_anchor_IgnoresSucc(self) ==
    \/ self.action.kind = "MarkBegin" /\ self.action.expand
    \/ self.action.kind = "MarkEnd" /\ ~self.action.expand

valid_mark_anchor(self) ==
    /\ self.succ = <<>>
    /\ \/ self.action.kind = "MarkBegin" /\ self.action.expand
       \/ self.action.kind = "MarkEnd" /\ ~self.action.expand

\* visible_or_mark that still hides marks
visible_or_mark_HidesMarks(self, clock) ==
    IF is_inc(self) \/ is_mark(self) THEN FALSE
    ELSE IF clock.some
    THEN /\ covers(clock.clock, self.id)
         /\ ~ \E i \in Range(succ_iter(self)) : covers(clock.clock, i)
    ELSE IF is_counter(self) THEN Len(self.succ) <= incs(self)
    ELSE self.succ = <<>>

visible_or_mark(self, clock) ==
    IF is_inc(self) THEN FALSE
    ELSE IF clock.some
    THEN /\ covers(clock.clock, self.id)
         /\ ~ \E i \in Range(succ_iter(self)) : covers(clock.clock, i)
    ELSE IF is_counter(self) THEN Len(self.succ) <= incs(self)
    ELSE self.succ = <<>>

was_deleted_before(self, clock) == \E i \in Range(succ_iter(self)) : covers(clock, i)

predates(self, clock) == covers(clock, self.id)

overwrites(self, other) == \E i \in 1 .. Len(self.pred) : self.pred[i] = other.id

(***************************************************************************)
(* Values.  A Value is Object(obj), Scalar(scalar), or the panic of        *)
(* value() on an action that has no value.                                 *)
(***************************************************************************)
ValueObject(t) == [tag |-> "Object", obj |-> t, scalar |-> NullScalar]

ValueScalar(s) == [tag |-> "Scalar", obj |-> "", scalar |-> s]

\* the owned strings format!("markBegin={}", value) and "markEnd"
ValueText(tag, s) == [tag |-> tag, obj |-> "", scalar |-> s]

Panic == [tag |-> "Panic", obj |-> "", scalar |-> NullScalar]

RECURSIVE CoveredSum(_, _)
\* the deltas of the ledger entries whose id the clock covers, summed
CoveredSum(incs_, clock) ==
    IF incs_ = <<>> THEN 0
    ELSE (IF covers(clock, Head(incs_)[1]) THEN Head(incs_)[2] ELSE 0)
         + CoveredSum(Tail(incs_), clock)

\* Counter::value_at
Counter_value_at(c, clock) == c.start + CoveredSum(c.increments, clock)

\* Value::counter
Value_counter(n) == ValueScalar(CounterFrom(n))

value(self) ==
    CASE self.action.kind = "Make" -> ValueObject(self.action.obj)
      [] self.action.kind = "Put" -> ValueScalar(self.action.value)
      [] self.action.kind = "MarkBegin" -> ValueText("markBegin=", self.action.value)
      [] self.action.kind = "MarkEnd" -> ValueText("markEnd", NullScalar)
      [] OTHER -> Panic

\* value_at that ignores the clock
value_at_IgnoresClock(self, clock) == value(self)

value_at(self, clock) ==
    IF clock.some /\ is_counter(self)
    THEN Value_counter(Counter_value_at(self.action.value, clock.clock))
    ELSE value(self)

(***************************************************************************)
(* The ops of the model.  The target op A has id (1,0); Pool holds the     *)
(* other ops of the document, each with its own id.                        *)
(***************************************************************************)
AId == OpId_new(1, 0)

\* the states a freshly created target op can be in (gen_op: no succ)
InitOps ==
    {MkOp(AId, a, KeyMap(0), FALSE, <<>>) :
        a \in {Put(CounterFrom(0)), Put(CounterFrom(3)), Put(ScalarStr(1)),
               Make("Map"), Delete, Increment(1),
               MarkBegin(TRUE, "bold", ScalarInt(1)), MarkEnd(FALSE)}}
    \cup
    {MkOp(AId, a, KeySeq(HEAD), TRUE, <<>>) :
        a \in {Put(ScalarStr(1)), Make("Text"),
               MarkBegin(FALSE, "bold", ScalarInt(1)), MarkEnd(TRUE)}}

IncX == MkOp(OpId_new(2, 0), Increment(5), KeyMap(0), FALSE, <<AId>>)

IncY == MkOp(OpId_new(2, 1), Increment(-2), KeyMap(0), FALSE, <<AId>>)

\* a delete of both concurrent writes
Del == MkOp(OpId_new(3, 0), Delete, KeyMap(0), FALSE, <<OpId_new(1, 1), AId>>)

\* a write over the concurrent op alone
PutZ == MkOp(OpId_new(3, 1), Put(ScalarStr(2)), KeyMap(0), FALSE, <<OpId_new(1, 1)>>)

\* a concurrent write to the same key that does not overwrite A
Other == MkOp(OpId_new(1, 1), Put(ScalarInt(7)), KeyMap(0), FALSE, <<>>)

Pool == {IncX, IncY, Del, PutZ, Other}

\* the running total and the ledger stay within the bounds explored; the
\* totals are far inside the i64 range, so no addition here overflows
InBounds(o) ==
    is_counter(o) =>
        /\ Len(o.action.value.increments) <= MaxLedger
        /\ o.action.value.current \in (0 - MaxTotal) .. MaxTotal

(***************************************************************************)
(* State.                                                                  *)
(***************************************************************************)
VARIABLES
    op,       \* the target op A
    op2,      \* the same op A held by a second replica
    made,     \* the ops of Pool applied at the first replica
    made2,    \* the ops of Pool applied at the second replica
    rt,       \* the round trip under way: its phase, the op before it,
              \* the ops linked by it and those unlinked again
    q         \* the call of a pure function under way: its arguments and,
              \* once it has returned, its result

vars == <<op, op2, made, made2, rt, q>>

NoRoundTrip(o) ==
    [phase |-> "prefix", base |-> o, batch |-> {}, undone |-> {}, calls |-> 0]

\* no pure function is being called
NoQuery == [fn |-> "none"]

Init ==
    /\ op \in InitOps
    /\ op2 = op
    /\ made = {}
    /\ made2 = {}
    /\ rt = NoRoundTrip(op)
    /\ q = NoQuery

\* A.add_succ(b, cmp), for any op b
AddSucc(b) ==
    /\ InBounds(add_succ(op, b, ActorTable))
    /\ op' = add_succ(op, b, ActorTable)
    /\ UNCHANGED <<op2, made, made2, rt, q>>

\* A.remove_succ(b), for any op b
RemoveSucc(b) ==
    /\ InBounds(remove_succ(op, b))
    /\ op' = remove_succ(op, b)
    /\ UNCHANGED <<op2, made, made2, rt, q>>

Next ==
    \/ \E b \in Pool : AddSucc(b)
    \/ \E b \in Pool : RemoveSucc(b)

Spec == Init /\ [][Next]_vars

(***************************************************************************)
(* Properties of the op under any sequence of add_succ / remove_succ.      *)
(***************************************************************************)
is_plain(o) == ~is_counter(o) /\ ~is_inc(o) /\ ~is_mark(o)

\* the op of the document that carries the id
OpOfId(id) == CHOOSE b \in Pool : b.id = id

\* C4: a plain op (no counter, increment or mark) is visible exactly when
\* it has no successors.
C4_PlainVisibleIffNoSucc ==
    is_plain(op) => (visible(op) <=> Len(op.succ) = 0)

C4_Witness ==
    /\ is_plain(op)
    /\ Len(op.succ) >= 2
    /\ ~visible(op)

\* C5: a counter op is visible exactly when succ is no longer than the
\* ledger, and that is exactly when every successor is an increment folded
\* into the ledger.
C5_CounterVisible ==
    is_counter(op) =>
        /\ visible(op) <=> Len(op.succ) <= Len(op.action.value.increments)
        /\ visible(op) <=>
              \A i \in Range(op.succ) :
                  /\ i \in LedgerIds(op.action.value)
                  /\ OpOfId(i).action.kind = "Increment"

\* C6: increments and marks are never visible, with or without a clock.
C6_IncMarkNeverVisible ==
    (is_inc(op) \/ is_mark(op)) =>
        /\ ~visible(op)
        /\ \A c \in ClockOpts : ~visible_at(op, c)

\* a mark with one successor, under a clock that has seen the mark and not
\* the successor: a plain op would be visible here
C6_Witness ==
    /\ is_mark(op)
    /\ Len(op.succ) = 1
    /\ \E c \in Clocks : covers(c, op.id) /\ ~covers(c, op.succ[1])

\* C7: under a clock that covers every id, visible_at agrees with visible.
C7_FullClockEqualsVisible ==
    visible_at(op, Some(FullClock)) = visible(op)

\* C8: with a clock, an op that is no increment and no mark is visible
\* exactly when the clock covers its id and none of its successors, the
\* ledgered successors of a counter left out; without a clock visible_at
\* is visible.
C8_VisibleAt ==
    (~is_inc(op) /\ ~is_mark(op)) =>
        /\ \A c \in Clocks :
              visible_at(op, Some(c)) <=>
                  /\ covers(c, op.id)
                  /\ \A k \in 1 .. Len(op.succ) :
                        \/ (is_counter(op) /\
                            \E j \in 1 .. Len(op.action.value.increments) :
                                op.action.value.increments[j][1] = op.succ[k])
                        \/ ~covers(c, op.succ[k])
        /\ visible_at(op, None) = visible(op)

C8_Witness ==
    /\ is_counter(op)
    /\ \E k \in 1 .. Len(op.succ) :
          /\ op.succ[k] \in LedgerIds(op.action.value)
          /\ \E c \in Clocks : covers(c, op.succ[k]) /\ visible_at(op, Some(c))
    /\ \E c \in Clocks : covers(c, op.id) /\ ~visible_at(op, Some(c))

RECURSIVE SumAt(_, _)
\* the deltas at the ledger positions in idx, summed
SumAt(ledger, idx) ==
    IF idx = {} THEN 0
    ELSE LET i == CHOOSE j \in idx : TRUE
         IN  ledger[i][2] + SumAt(ledger, idx \ {i})

\* C10: with a clock, a counter reports its start plus the deltas of the
\* covered ledger entries; with no clock it reports the running total; any
\* other op reports the same value with and without a clock.
C10_ValueAt ==
    /\ is_counter(op) =>
          LET c0 == op.action.value
          IN  /\ \A c \in Clocks :
                    /\ value_at(op, Some(c)).tag = "Scalar"
                    /\ value_at(op, Some(c)).scalar.type = "Counter"
                    /\ value_at(op, Some(c)).scalar.current =
                          c0.start + SumAt(c0.increments,
                              {i \in 1 .. Len(c0.increments) :
                                  covers(c, c0.increments[i][1])})
              /\ value(op).scalar.current = c0.current
              /\ value_at(op, None) = value(op)
    /\ ~is_counter(op) => \A c \in ClockOpts : value_at(op, c) = value(op)

C10_Witness ==
    /\ is_counter(op)
    /\ Len(op.action.value.increments) >= 2
    /\ \E c \in Clocks :
          /\ covers(c, op.id)
          /\ value_at(op, Some(c)).scalar.current # value(op).scalar.current
          /\ value_at(op, Some(c)).scalar.current # op.action.value.start

(***************************************************************************)
(* A round trip: after at most MaxPrefix arbitrary calls, ops whose ids    *)
(* are not in succ are linked, each once, and then unlinked in any order.  *)

\* the shape of an anchoring mark: MarkBegin(true, _) or MarkEnd(false)
AnchorShape(a) ==
    \/ a.kind = "MarkBegin" /\ a.expand
    \/ a.kind = "MarkEnd" /\ ~a.expand

\* C14: valid_mark_anchor holds exactly for an op without successors whose
\* action is MarkBegin with expand or MarkEnd without; linking a successor
\* makes it false and unlinking that successor brings the old answer back.
C14_ValidMarkAnchor ==
    /\ valid_mark_anchor(op) <=> (Len(op.succ) = 0 /\ AnchorShape(op.action))
    /\ \A b \in Pool :
          /\ ~valid_mark_anchor(add_succ(op, b, ActorTable))
          /\ ~Contains(op.succ, b.id) =>
                valid_mark_anchor(remove_succ(add_succ(op, b, ActorTable), b))
                  = valid_mark_anchor(op)

C14_Witness ==
    /\ op.action.kind = "MarkBegin"
    /\ op.action.expand
    /\ Len(op.succ) = 1
    /\ ~valid_mark_anchor(op)
    /\ valid_mark_anchor(remove_succ(op, OpOfId(op.succ[1])))


\* C17: visible_or_mark agrees with visible_at on every op that is not a
\* mark; on a mark it is true without a clock iff succ is empty and with a
\* clock iff the clock covers the op and none of its successors; on an
\* increment it is false.
C17_VisibleOrMark ==
    \A c \in ClockOpts :
        /\ ~is_mark(op) => visible_or_mark(op, c) = visible_at(op, c)
        /\ (is_mark(op) /\ ~c.some) =>
              (visible_or_mark(op, c) <=> Len(op.succ) = 0)
        /\ (is_mark(op) /\ c.some) =>
              (visible_or_mark(op, c) <=>
                 /\ covers(c.clock, op.id)
                 /\ \A i \in 1 .. Len(op.succ) : ~covers(c.clock, op.succ[i]))
        /\ is_inc(op) => ~visible_or_mark(op, c)

C17_Witness ==
    /\ is_mark(op)
    /\ Len(op.succ) = 1
    /\ ~visible_or_mark(op, None)
    /\ \E c \in Clocks :
          /\ ~covers(c, op.succ[1])
          /\ visible_or_mark(op, Some(c))
          /\ ~visible_at(op, Some(c))


\* after differs from before in succ at most
OnlySucc(before, after) == after = [before EXCEPT !.succ = after.succ]

\* after keeps id, key, insert and pred of before, and its action too, but
\* for the running total and the ledger of a counter
Frame(before, after) ==
    /\ after.id = before.id
    /\ after.key = before.key
    /\ after.insert = before.insert
    /\ after.pred = before.pred
    /\ IF is_counter(before)
       THEN after.action =
              [before.action EXCEPT !.value.current = after.action.value.current,
                                    !.value.increments = after.action.value.increments]
       ELSE after.action = before.action

\* C18: add_succ, remove_succ and increment leave id, key, insert and pred
\* alone and change the action only in the running total and ledger of a
\* counter; an increment linked to or unlinked from a non-counter, and a
\* non-increment linked to or unlinked from a counter, change succ only.
C18_Frame ==
    \A b \in Pool :
        /\ Frame(op, add_succ(op, b, ActorTable))
        /\ Frame(op, remove_succ(op, b))
        /\ Frame(op, increment(op, b.action.n, b.id))
        /\ ((is_inc(b) /\ ~is_counter(op)) \/ (~is_inc(b) /\ is_counter(op))) =>
              /\ OnlySucc(op, add_succ(op, b, ActorTable))
              /\ OnlySucc(op, remove_succ(op, b))

C18_Witness ==
    /\ op.action = Put(ScalarStr(1))
    /\ Contains(op.succ, IncX.id)
    /\ Contains(op.succ, IncY.id)
    /\ OnlySucc(op, remove_succ(op, IncX))


\* C19: value() panics only for Delete and Increment, and no op that is
\* visible, with or without a clock, makes value() or value_at() panic.
C19_VisibleNeverPanics ==
    /\ value(op) = Panic <=> op.action.kind \in {"Delete", "Increment"}
    /\ visible(op) => value(op) # Panic
    /\ \A c \in ClockOpts :
          visible_at(op, c) => (value(op) # Panic /\ value_at(op, c) # Panic)

RECURSIVE LedgerSum(_)
\* the deltas of a ledger, summed
LedgerSum(incs_) ==
    IF incs_ = <<>> THEN 0 ELSE Head(incs_)[2] + LedgerSum(Tail(incs_))

\* C20: on a counter op the running total is the start value plus the sum
\* of the ledger's deltas, and the ledger holds exactly one entry (id, n)
\* for each Increment(n) op whose id is in succ and none for another id.
C20_LedgerInvariant ==
    is_counter(op) =>
        LET c == op.action.value
        IN  /\ c.current = c.start + LedgerSum(c.increments)
            /\ \A i \in 1 .. Len(c.increments) :
                  /\ Contains(op.succ, c.increments[i][1])
                  /\ OpOfId(c.increments[i][1]).action = Increment(c.increments[i][2])
                  /\ \A k \in 1 .. Len(c.increments) :
                        c.increments[k][1] = c.increments[i][1] => k = i
            /\ \A i \in 1 .. Len(op.succ) :
                  is_inc(OpOfId(op.succ[i])) => op.succ[i] \in LedgerIds(c)


\* C21: remove_succ of an op whose id is not in succ leaves the op as it
\* is, succ, running total and ledger included, so a second remove_succ of
\* the same op changes nothing after the first.
C21_RemoveUnlinked ==
    \A b \in Pool :
        /\ ~Contains(op.succ, b.id) => remove_succ(op, b) = op
        /\ remove_succ(remove_succ(op, b), b) = remove_succ(op, b)


\* the ids of the document
DocIds == {AId} \cup {b.id : b \in Pool}

\* later covers every id of the document that earlier covers
Descends(later, earlier) == \A id \in DocIds : covers(earlier, id) => covers(later, id)

\* C22: for one op and two clocks, the second covering every id the first
\* covers, an op that the first clock includes and does not show is not
\* shown at the second clock either, and a successor seen by the first
\* clock is seen by the second.
C22_SupersessionPermanent ==
    \A c \in Clocks, c2 \in Clocks :
        Descends(c2, c) =>
            /\ (predates(op, c) /\ ~visible_at(op, Some(c))) => ~visible_at(op, Some(c2))
            /\ was_deleted_before(op, c) => was_deleted_before(op, c2)

C22_Witness ==
    /\ is_plain(op)
    /\ Len(op.succ) = 2
    /\ \E c0 \in Clocks, c \in Clocks, c2 \in Clocks :
          /\ Descends(c, c0) /\ Descends(c2, c) /\ c0 # c /\ c # c2
          /\ visible_at(op, Some(c0))
          /\ predates(op, c) /\ was_deleted_before(op, c)
          /\ \E i \in Range(op.succ) : ~covers(c, i)
          /\ \A i \in Range(op.succ) : covers(c2, i)
          /\ ~visible_at(op, Some(c)) /\ ~visible_at(op, Some(c2))

(***************************************************************************)
PrefixAdd(b) ==
    /\ rt.phase = "prefix"
    /\ rt.calls < MaxPrefix
    /\ InBounds(add_succ(op, b, ActorTable))
    /\ op' = add_succ(op, b, ActorTable)
    /\ rt' = [rt EXCEPT !.calls = @ + 1, !.base = op']
    /\ UNCHANGED <<op2, made, made2, q>>

PrefixRemove(b) ==
    /\ rt.phase = "prefix"
    /\ rt.calls < MaxPrefix
    /\ InBounds(remove_succ(op, b))
    /\ op' = remove_succ(op, b)
    /\ rt' = [rt EXCEPT !.calls = @ + 1, !.base = op']
    /\ UNCHANGED <<op2, made, made2, q>>

LinkBatch(b) ==
    /\ rt.phase \in {"prefix", "adding"}
    /\ ~Contains(op.succ, b.id)
    /\ b \notin rt.batch
    /\ op' = add_succ(op, b, ActorTable)
    /\ rt' = [rt EXCEPT !.phase = "adding", !.batch = @ \cup {b}]
    /\ UNCHANGED <<op2, made, made2, q>>

UnlinkBatch(b) ==
    /\ rt.phase \in {"adding", "removing"}
    /\ b \in rt.batch \ rt.undone
    /\ op' = remove_succ(op, b)
    /\ rt' = [rt EXCEPT !.phase = "removing", !.undone = @ \cup {b}]
    /\ UNCHANGED <<op2, made, made2, q>>

NextRoundTrip ==
    \/ \E b \in Pool : PrefixAdd(b)
    \/ \E b \in Pool : PrefixRemove(b)
    \/ \E b \in Pool : LinkBatch(b)
    \/ \E b \in Pool : UnlinkBatch(b)

SpecRoundTrip == Init /\ [][NextRoundTrip]_vars

\* C1: once every op linked by the round trip is unlinked again, the op is
\* what it was before the first link: succ, the running total and the ledger.
C1_RoundTrip ==
    (rt.phase = "removing" /\ rt.undone = rt.batch) =>
        /\ op.succ = rt.base.succ
        /\ op.action = rt.base.action
        /\ op = rt.base

C1_Witness ==
    /\ rt.phase = "removing"
    /\ rt.undone = rt.batch
    /\ Cardinality(rt.batch) >= 3
    /\ \E b \in rt.batch : is_inc(b)
    /\ is_counter(op)
    /\ Len(op.action.value.increments) >= 1
    /\ Len(op.succ) >= 2

(***************************************************************************)
(* Linking by pred.  Each replica applies the ops of Pool, each at most    *)
(* once and in its own order: applying b links it to A when A.id is in     *)
(* b.pred, and undoing b unlinks it again.                                 *)
(***************************************************************************)
ApplyOp(b) ==
    /\ b \notin made
    /\ made' = made \cup {b}
    /\ op' = IF overwrites(b, op) THEN add_succ(op, b, ActorTable) ELSE op
    /\ UNCHANGED <<op2, made2, rt, q>>

UndoOp(b) ==
    /\ b \in made
    /\ made' = made \ {b}
    /\ op' = IF overwrites(b, op) THEN remove_succ(op, b) ELSE op
    /\ UNCHANGED <<op2, made2, rt, q>>

ApplyOp2(b) ==
    /\ b \notin made2
    /\ made2' = made2 \cup {b}
    /\ op2' = IF overwrites(b, op2) THEN add_succ(op2, b, ActorTable) ELSE op2
    /\ UNCHANGED <<op, made, rt, q>>

UndoOp2(b) ==
    /\ b \in made2
    /\ made2' = made2 \ {b}
    /\ op2' = IF overwrites(b, op2) THEN remove_succ(op2, b) ELSE op2
    /\ UNCHANGED <<op, made, rt, q>>

NextLinked ==
    \/ \E b \in Pool : ApplyOp(b)
    \/ \E b \in Pool : UndoOp(b)
    \/ \E b \in Pool : ApplyOp2(b)
    \/ \E b \in Pool : UndoOp2(b)

SpecLinked == Init /\ [][NextLinked]_vars

\* succ is in the order of the ordering function
Sorted(s) ==
    \A i, j \in 1 .. Len(s) : i < j => lamport_cmp(s[i], s[j], ActorTable) = "Less"

\* what a reader of value() is shown: of a counter, its running total
Shown(v) ==
    IF v.tag = "Scalar" /\ v.scalar.type = "Counter"
    THEN <<"Counter", v.scalar.current>>
    ELSE <<"Value", v>>

\* C2: two replicas that have applied the same set of successors, in
\* whatever orders, hold the same sorted succ and report the same
\* visible() and value().
C2_ArrivalOrder ==
    (made = made2) =>
        /\ op.succ = op2.succ
        /\ Sorted(op.succ)
        /\ visible(op) = visible(op2)
        /\ Shown(value(op)) = Shown(value(op2))

C2_Witness ==
    /\ made = made2
    /\ is_counter(op)
    /\ Len(op.succ) >= 3
    /\ op.action.value.increments # op2.action.value.increments

\* C3: succ is the inverse of pred: an op that exists is in A.succ exactly
\* when it overwrites A, and no other id is in A.succ.
C3_SuccInversePred ==
    \A b \in Pool :
        Contains(op.succ, b.id) <=> (b \in made /\ overwrites(b, op))

C3_Witness ==
    /\ \E b \in made : overwrites(b, op) /\ Contains(op.succ, b.id)
    /\ \E b \in made : ~overwrites(b, op) /\ ~Contains(op.succ, b.id)
    /\ \E b \in Pool \ made : overwrites(b, op) /\ ~Contains(op.succ, b.id)
    /\ Len(op.succ) >= 2

\* C9: linking an Increment(n) to a counter adds n to the total value()
\* reports and does not hide the counter; linking any other successor to
\* a counter leaves succ longer than the ledger and the counter invisible.
C9_LinkToCounter ==
    [][\A b \in Pool :
          (ApplyOp(b) /\ is_counter(op) /\ overwrites(b, op)) =>
              IF is_inc(b)
              THEN /\ value(op').scalar.current = value(op).scalar.current + b.action.n
                   /\ visible(op) => visible(op')
              ELSE /\ Len(op'.succ) > Len(op'.action.value.increments)
                   /\ ~visible(op')]_vars

\* the scenario: Counter(0) linked to Increment(5) shows 5, and the Delete
\* linked after it hides the counter
C9_Witness ==
    /\ op.action.value = [CounterFrom(0) EXCEPT !.current = 5,
                             !.increments = <<<<IncX.id, 5>>>>]
    /\ made = {IncX, Del}
    /\ op.succ = <<IncX.id, Del.id>>
    /\ Shown(value(op)) = <<"Counter", 5>>
    /\ ~visible(op)

(***************************************************************************)
(* Pure functions.  A call is held in q: Init draws the arguments, the     *)
(* action of the function stores what it returns.  The op of the other     *)
(* specifications is parked meanwhile.                                     *)
(***************************************************************************)
ParkedOp == MkOp(AId, Delete, KeyMap(0), FALSE, <<>>)

Parked ==
    /\ op = ParkedOp
    /\ op2 = ParkedOp
    /\ made = {}
    /\ made2 = {}
    /\ rt = NoRoundTrip(ParkedOp)

(***************************************************************************)
(* lamport_cmp in two sessions.  An op is known by its counter and the     *)
(* bytes of its actor; each session has its own actor table and so its     *)
(* own OpId for the op.                                                    *)
(***************************************************************************)
ActorIds == {<<1>>, <<1, 0>>, <<2>>}

\* the actor tables of a session: every actor at one index
Tables ==
    {tb \in [0 .. (Cardinality(ActorIds) - 1) -> ActorIds] :
        \A i, j \in DOMAIN tb : tb[i] = tb[j] => i = j}

\* the OpId a session with table tb gives to the op (counter, actor)
IdIn(tb, counter, actor) ==
    OpId_new(counter, CHOOSE i \in DOMAIN tb : tb[i] = actor)

LamportOps == [counter : {0, 1, 2}, actor : ActorIds]

InitLamport ==
    /\ Parked
    /\ q \in [fn : {"lamport_cmp"}, t1 : Tables, t2 : Tables,
               a : LamportOps, b : LamportOps, out : {<<"pending", "pending">>}]

\* a.lamport_cmp(b, actors), evaluated in each of the two sessions
LamportCmp ==
    /\ q.fn = "lamport_cmp"
    /\ q.out = <<"pending", "pending">>
    /\ q' = [q EXCEPT !.out =
                <<lamport_cmp(IdIn(q.t1, q.a.counter, q.a.actor),
                              IdIn(q.t1, q.b.counter, q.b.actor), q.t1),
                  lamport_cmp(IdIn(q.t2, q.a.counter, q.a.actor),
                              IdIn(q.t2, q.b.counter, q.b.actor), q.t2)>>]
    /\ UNCHANGED <<op, op2, made, made2, rt>>

NextLamport == LamportCmp

SpecLamport == InitLamport /\ [][NextLamport]_vars

\* C11: the two sessions get the same Ordering for the same two ops, it is
\* the order of (counter, actor bytes), and it is Equal only for the same
\* counter and the same actor.
C11_LamportTableFree ==
    (q.fn = "lamport_cmp" /\ q.out # <<"pending", "pending">>) =>
        /\ q.out[1] = q.out[2]
        /\ q.out[1] = "Equal" => q.a = q.b
        /\ q.a.counter < q.b.counter => q.out[1] = "Less"
        /\ q.a.counter > q.b.counter => q.out[1] = "Greater"
        /\ q.a.counter = q.b.counter =>
              q.out[1] = BytesCmp(q.a.actor, q.b.actor)

\* same counter, and the two tables order the two actors' indices in
\* opposite ways
C11_Witness ==
    /\ q.fn = "lamport_cmp"
    /\ q.out # <<"pending", "pending">>
    /\ q.a.counter = q.b.counter
    /\ q.a.actor # q.b.actor
    /\ IdIn(q.t1, q.a.counter, q.a.actor)[2] < IdIn(q.t1, q.b.counter, q.b.actor)[2]
    /\ IdIn(q.t2, q.a.counter, q.a.actor)[2] > IdIn(q.t2, q.b.counter, q.b.actor)[2]
    /\ q.out[1] = "Greater"

(***************************************************************************)
(* The wire mapping of OpType.  A 64-bit integer hi * 2^63 + lo with a     *)
(* small lo is written <<hi, lo>>: u64 runs from <<0, 0>> to <<2, -1>>,    *)
(* i64 from <<-1, 0>> to <<1, -1>>.                                        *)
(***************************************************************************)
\* u64 values: 0, 1, 5, i64::MAX, 2^63, 2^63 + 1, u64::MAX
U64s == {<<0, 0>>, <<0, 1>>, <<0, 5>>, <<1, -1>>, <<1, 0>>, <<1, 1>>, <<2, -1>>}

\* i64 values: i64::MIN, i64::MIN + 1, -2, 0, 5, i64::MAX
I64s == {<<-1, 0>>, <<-1, 1>>, <<0, -2>>, <<0, 0>>, <<0, 5>>, <<1, -1>>}

\* `i as i64` of a u64: the same 64 bits read as two's complement, so a
\* value of 2^63 or more comes out 2^64 lower
AsI64(u) ==
    IF u[1] >= 2 \/ (u[1] = 1 /\ u[2] >= 0) THEN <<u[1] - 2, u[2]>> ELSE u

\* ScalarValue::Int and ScalarValue::Uint of the 64-bit integer w
ScalarInt64(w) == [ScalarInt(w[2]) EXCEPT !.hi = w[1]]

ScalarUint(w) == [NullScalar EXCEPT !.type = "Uint", !.hi = w[1], !.v = w[2]]

\* OpType::Increment of the 64-bit integer w
Increment64(w) == [Increment(w[2]) EXCEPT !.hi = w[1]]

ScalarOther(type) == [NullScalar EXCEPT !.type = type]

\* the scalars a decoder can be handed (gen_scalar_value)
WireScalars ==
    {ScalarInt64(i) : i \in I64s} \cup {ScalarUint(u) : u \in U64s}
    \cup {ScalarOther(ty) : ty \in {"Null", "Str", "Bytes", "F64", "Boolean", "Timestamp"}}
    \cup {CounterFrom(0)}

\* Option<SmolStr>
NoName == [some |-> FALSE, name |-> ""]

SomeName(n) == [some |-> TRUE, name |-> n]

MarkNames == {NoName, SomeName("bold")}

ObjTypes == {"Map", "Table", "List", "Text"}

\* the op types of the wire model
WireOpTypes ==
    {Make(ty) : ty \in ObjTypes} \cup {Delete}
    \cup {Increment64(i) : i \in I64s}
    \cup {Put(s) : s \in WireScalars}
    \cup {MarkBegin(e, "bold", s) : e \in BOOLEAN, s \in WireScalars}
    \cup {MarkEnd(e) : e \in BOOLEAN}

\* action_index with the codes of Make(List) and Make(Text) exchanged
action_index_Swapped(a) ==
    CASE a.kind = "Make" /\ a.obj = "Map" -> 0
      [] a.kind = "Put" -> 1
      [] a.kind = "Make" /\ a.obj = "List" -> 4
      [] a.kind = "Delete" -> 3
      [] a.kind = "Make" /\ a.obj = "Text" -> 2
      [] a.kind = "Increment" -> 5
      [] a.kind = "Make" /\ a.obj = "Table" -> 6
      [] a.kind \in {"MarkBegin", "MarkEnd"} -> 7

\* OpType::action_index
action_index(a) ==
    CASE a.kind = "Make" /\ a.obj = "Map" -> 0
      [] a.kind = "Put" -> 1
      [] a.kind = "Make" /\ a.obj = "List" -> 2
      [] a.kind = "Delete" -> 3
      [] a.kind = "Make" /\ a.obj = "Text" -> 4
      [] a.kind = "Increment" -> 5
      [] a.kind = "Make" /\ a.obj = "Table" -> 6
      [] a.kind \in {"MarkBegin", "MarkEnd"} -> 7

\* Result<(), error::InvalidOpType>
Ok == [state |-> "Ok", code |-> 0]

NonNumericInc == [state |-> "NonNumericInc", code |-> 0]

UnknownAction(action) == [state |-> "UnknownAction", code |-> action]

NotValidated == [state |-> "pending", code |-> 0]

\* validate_action_and_value that lets every scalar through for code 5
validate_action_and_value_AnyInc(action, val) ==
    IF action \in 0 .. 7 THEN Ok ELSE UnknownAction(action)

\* OpType::validate_action_and_value
validate_action_and_value(action, val) ==
    IF action \in 0 .. 4 THEN Ok
    ELSE IF action = 5
         THEN IF val.type \in {"Int", "Uint"} THEN Ok ELSE NonNumericInc
    ELSE IF action = 6 THEN Ok
    ELSE IF action = 7 THEN Ok
    ELSE UnknownAction(action)

\* unreachable!(..) in from_action_and_value
Unreachable == [NoAction EXCEPT !.kind = "unreachable"]

NotDecoded == [NoAction EXCEPT !.kind = "pending"]

\* OpType::from_action_and_value
from_action_and_value(action, val, mark_name, expand) ==
    CASE action = 0 -> Make("Map")
      [] action = 1 -> Put(val)
      [] action = 2 -> Make("List")
      [] action = 3 -> Delete
      [] action = 4 -> Make("Text")
      [] action = 5 ->
            IF val.type = "Int" THEN Increment64(<<val.hi, val.v>>)
            ELSE IF val.type = "Uint" THEN Increment64(AsI64(<<val.hi, val.v>>))
            ELSE Unreachable
      [] action = 6 -> Make("Table")
      [] action = 7 ->
            IF mark_name.some THEN MarkBegin(expand, mark_name.name, val)
            ELSE MarkEnd(expand)
      [] OTHER -> Unreachable

\* the scalar, mark name and expand flag an op type is written with; an op
\* type that carries no scalar is written with the scalar `spare`
PayloadValue(a, spare) ==
    IF a.kind \in {"Put", "MarkBegin"} THEN a.value
    ELSE IF a.kind = "Increment" THEN ScalarInt64(<<a.hi, a.n>>)
    ELSE spare

PayloadName(a) == IF a.kind = "MarkBegin" THEN SomeName(a.name) ELSE NoName

\* highest action code handed to the decoder
MaxAction == 9

\* a call: either an op type to encode and decode again, or raw columns
\* to validate and decode
InitWire ==
    /\ Parked
    /\ \/ q \in [fn : {"encode"}, src : WireOpTypes, action : {0},
                  value : WireScalars, mark_name : {NoName}, expand : {FALSE},
                  valid : {NotValidated}, out : {NotDecoded}]
       \/ q \in [fn : {"validate"}, src : {NotDecoded}, action : 0 .. MaxAction,
                  value : WireScalars, mark_name : MarkNames, expand : BOOLEAN,
                  valid : {NotValidated}, out : {NotDecoded}]

\* write the op type as its columns: action code, scalar, mark name, expand
Encode ==
    /\ q.fn = "encode"
    /\ q' = [q EXCEPT !.fn = "validate",
                       !.action = action_index(q.src),
                       !.value = PayloadValue(q.src, q.value),
                       !.mark_name = PayloadName(q.src),
                       !.expand = q.src.expand]
    /\ UNCHANGED <<op, op2, made, made2, rt>>

Validate ==
    /\ q.fn = "validate"
    /\ q' = [q EXCEPT !.fn = "decode",
                       !.valid = validate_action_and_value(q.action, q.value)]
    /\ UNCHANGED <<op, op2, made, made2, rt>>

\* the decoder calls from_action_and_value on what validation accepted
Decode ==
    /\ q.fn = "decode"
    /\ q.valid = Ok
    /\ q' = [q EXCEPT !.fn = "done",
                       !.out = from_action_and_value(q.action, q.value,
                                                     q.mark_name, q.expand)]
    /\ UNCHANGED <<op, op2, made, made2, rt>>

NextWire == Encode \/ Validate \/ Decode

SpecWire == InitWire /\ [][NextWire]_vars

\* the fixed wire code of an op type
WireCode(a) ==
    IF a.kind = "Make"
    THEN (IF a.obj = "Map" THEN 0 ELSE IF a.obj = "List" THEN 2
          ELSE IF a.obj = "Text" THEN 4 ELSE 6)
    ELSE IF a.kind = "Put" THEN 1
    ELSE IF a.kind = "Delete" THEN 3
    ELSE IF a.kind = "Increment" THEN 5
    ELSE 7

\* C12: an op type is written with its fixed code, and decoding the code
\* with the op type's own payload gives the op type back.
C12_WireRoundTrip ==
    /\ (q.fn \in {"validate", "decode", "done"} /\ q.src # NotDecoded) =>
          q.action = WireCode(q.src)
    /\ (q.fn = "decode" /\ q.src # NotDecoded) => q.valid = Ok
    /\ (q.fn = "done" /\ q.src # NotDecoded) => q.out = q.src

C12_Witness ==
    /\ q.fn = "done"
    /\ q.src.kind = "MarkEnd"
    /\ q.src.expand
    /\ q.value.type = "Str"
    /\ q.out = q.src

\* C13: validation accepts codes 0-4, 6, 7 with any scalar and code 5 with
\* Int or Uint, rejects code 5 with another scalar as NonNumericInc and a
\* code above 7 as UnknownAction(code); what it accepts decodes without
\* reaching unreachable!.
C13_Validate ==
    /\ q.fn \in {"decode", "done"} =>
          /\ q.valid = Ok <=>
                \/ q.action \in {0, 1, 2, 3, 4, 6, 7}
                \/ q.action = 5 /\ q.value.type \in {"Int", "Uint"}
          /\ (q.action = 5 /\ q.value.type \notin {"Int", "Uint"}) =>
                q.valid = NonNumericInc
          /\ q.action > 7 => q.valid = [state |-> "UnknownAction", code |-> q.action]
    /\ q.fn = "done" => q.out.kind \notin {"unreachable", "pending"}

C13_Witness ==
    /\ q.fn = "done"
    /\ q.src = NotDecoded
    /\ q.action = 5
    /\ q.value.type = "Uint"
    /\ q.out.kind = "Increment"

\* C23: decoding code 5 keeps the number: Int(i) gives Increment(i) and an
\* accepted Uint(u) gives Increment(n) with n equal to u as a number.
C23_DeltaPreserved ==
    (q.fn = "done" /\ q.action = 5) =>
        /\ q.out.kind = "Increment"
        /\ <<q.out.hi, q.out.n>> = <<q.value.hi, q.value.v>>

(***************************************************************************)
(* Export of container and element ids.                                    *)
(***************************************************************************)
ROOT_STR == "_root"

HEAD_STR == "_head"

\* enum Export: Special(name) or Id(opid)
ExportSpecial(s) == [tag |-> "Special", name |-> s, id |-> ROOT]

ExportId(id) == [tag |-> "Id", name |-> "", id |-> id]

NotExported == [tag |-> "pending", name |-> "", id |-> ROOT]

\* <ObjId as Exportable>::export
ObjId_export(self) == IF self = ROOT THEN ExportSpecial(ROOT_STR) ELSE ExportId(self)

\* <ElemId as Exportable>::export
ElemId_export(self) == IF self = HEAD THEN ExportSpecial(HEAD_STR) ELSE ExportId(self)

\* ObjId::is_root
is_root(self) == OpId_counter(self) = 0

\* ElemId::is_head
is_head(self) == self = HEAD

\* highest op counter of the ids handed to export
MaxExportCounter == 3

ExportActors == 0 .. 3

\* the ids OpId::new constructs
ExportIds == {OpId_new(counter, actor) : counter \in 0 .. MaxExportCounter, actor \in ExportActors}

InitExport ==
    /\ Parked
    /\ q \in [fn : {"export"}, ty : {"ObjId", "ElemId"}, id : ExportIds,
              exported : {NotExported}, special : {"pending"}]

ExportObjId ==
    /\ q.fn = "export" /\ q.ty = "ObjId" /\ q.exported = NotExported
    /\ q' = [q EXCEPT !.exported = ObjId_export(q.id)]
    /\ UNCHANGED <<op, op2, made, made2, rt>>

IsRoot ==
    /\ q.fn = "export" /\ q.ty = "ObjId" /\ q.special = "pending"
    /\ q' = [q EXCEPT !.special = IF is_root(q.id) THEN "yes" ELSE "no"]
    /\ UNCHANGED <<op, op2, made, made2, rt>>

ExportElemId ==
    /\ q.fn = "export" /\ q.ty = "ElemId" /\ q.exported = NotExported
    /\ q' = [q EXCEPT !.exported = ElemId_export(q.id)]
    /\ UNCHANGED <<op, op2, made, made2, rt>>

IsHead ==
    /\ q.fn = "export" /\ q.ty = "ElemId" /\ q.special = "pending"
    /\ q' = [q EXCEPT !.special = IF is_head(q.id) THEN "yes" ELSE "no"]
    /\ UNCHANGED <<op, op2, made, made2, rt>>

NextExport == ExportObjId \/ IsRoot \/ ExportElemId \/ IsHead

SpecExport == InitExport /\ [][NextExport]_vars

\* C16: an ObjId exports as _root exactly when is_root() is true, an ElemId
\* as _head exactly when is_head() is true, and every other id as its OpId.
C16_ExportSpecial ==
    (q.fn = "export" /\ q.exported # NotExported /\ q.special # "pending") =>
        IF q.special = "yes"
        THEN q.exported = ExportSpecial(IF q.ty = "ObjId" THEN "_root" ELSE "_head")
        ELSE q.exported = ExportId(q.id)

(***************************************************************************)
(* ChangeHash: parsing from hex and printing as hex.  A string is the      *)
(* sequence of its characters.                                             *)
(***************************************************************************)
HASH_SIZE == 32

\* the digits hex::encode writes
HexDigits == <<"0", "1", "2", "3", "4", "5", "6", "7", "8", "9", "a", "b", "c", "d", "e", "f">>

UpperDigits == <<"A", "B", "C", "D", "E", "F">>

\* the value of a hex digit of either case, -1 for another character
hex_val(ch) ==
    IF \E i \in 1 .. 16 : HexDigits[i] = ch
    THEN (CHOOSE i \in 1 .. 16 : HexDigits[i] = ch) - 1
    ELSE IF \E i \in 1 .. 6 : UpperDigits[i] = ch
    THEN (CHOOSE i \in 1 .. 6 : UpperDigits[i] = ch) + 9
    ELSE -1

\* Result<Vec<u8>, hex::FromHexError>
HexOk(bytes) == [ok |-> TRUE, bytes |-> bytes, err |-> ""]

HexErr(e) == [ok |-> FALSE, bytes |-> <<>>, err |-> e]

DecodePairs(s) ==
    [i \in 1 .. (Len(s) \div 2) |-> 16 * hex_val(s[2 * i - 1]) + hex_val(s[2 * i])]

\* hex::decode that drops the last character of a string of odd length
hex_decode_DropsOddTail(s) ==
    IF \E i \in 1 .. (2 * (Len(s) \div 2)) : hex_val(s[i]) = -1
    THEN HexErr("InvalidHexCharacter")
    ELSE HexOk(DecodePairs(s))

\* hex::decode
hex_decode(s) ==
    IF Len(s) % 2 # 0 THEN HexErr("OddLength")
    ELSE IF \E i \in 1 .. Len(s) : hex_val(s[i]) = -1 THEN HexErr("InvalidHexCharacter")
    ELSE HexOk(DecodePairs(s))

\* hex::encode
hex_encode(bytes) ==
    [i \in 1 .. (2 * Len(bytes)) |->
        IF i % 2 = 1 THEN HexDigits[(bytes[(i + 1) \div 2] \div 16) + 1]
        ELSE HexDigits[(bytes[i \div 2] % 16) + 1]]

\* Result<ChangeHash, ParseChangeHashError>
ParseOk(bytes) == [tag |-> "Ok", bytes |-> bytes, err |-> "", actual |-> 0]

HexDecode(e) == [tag |-> "HexDecode", bytes |-> <<>>, err |-> e, actual |-> 0]

IncorrectLength(actual) ==
    [tag |-> "IncorrectLength", bytes |-> <<>>, err |-> "", actual |-> actual]

NotParsed == [tag |-> "pending", bytes |-> <<>>, err |-> "", actual |-> 0]

\* <ChangeHash as FromStr>::from_str
from_str(s) ==
    LET decoded == hex_decode(s)
    IN  IF ~decoded.ok THEN HexDecode(decoded.err)
        ELSE IF Len(decoded.bytes) = HASH_SIZE THEN ParseOk(decoded.bytes)
        ELSE IncorrectLength(Len(decoded.bytes))

\* <ChangeHash as Display>::fmt
to_string(hash) == hex_encode(hash)

\* longest string handed to from_str
MaxHexLen == 66

\* characters of the strings: lowercase and uppercase digits and a letter
\* that is no hex digit
HashChars == {"0", "9", "a", "f", "A", "F", "g"}

NotShown == <<"pending">>

\* the strings of the model: a pair of characters repeated up to the length
InitHash ==
    /\ Parked
    /\ \E len \in 0 .. MaxHexLen, a \in HashChars, b \in HashChars :
          q = [fn |-> "from_str",
               s |-> [i \in 1 .. len |-> IF i % 2 = 1 THEN a ELSE b],
               res |-> NotParsed,
               shown |-> NotShown]

FromStr ==
    /\ q.fn = "from_str"
    /\ q.res = NotParsed
    /\ q' = [q EXCEPT !.res = from_str(q.s)]
    /\ UNCHANGED <<op, op2, made, made2, rt>>

Display ==
    /\ q.fn = "from_str"
    /\ q.res.tag = "Ok"
    /\ q.shown = NotShown
    /\ q' = [q EXCEPT !.shown = to_string(q.res.bytes)]
    /\ UNCHANGED <<op, op2, made, made2, rt>>

NextHash == FromStr \/ Display

SpecHash == InitHash /\ [][NextHash]_vars

\* the string consists of hex digits / of lowercase hex digits
IsHex(s) == \A i \in 1 .. Len(s) : hex_val(s[i]) # -1

IsLowerHex(s) == \A i \in 1 .. Len(s) : \E k \in 1 .. 16 : HexDigits[k] = s[i]

\* a 64-character lowercase hex string parses and prints as itself
HashRoundTrip ==
    (q.fn = "from_str" /\ q.res # NotParsed /\ Len(q.s) = 64 /\ IsLowerHex(q.s)) =>
        /\ q.res.tag = "Ok"
        /\ q.shown # NotShown =>
              /\ Len(q.shown) = 64
              /\ \A i \in 1 .. 64 : q.shown[i] = q.s[i]

\* C15 as stated: a 64-character lowercase hex string round-trips, and a
\* hex string that is not 64 characters long, 63 and 65 characters
\* included, fails with the error that reports the decoded byte length.
C15_FromStr ==
    /\ HashRoundTrip
    /\ (q.fn = "from_str" /\ q.res # NotParsed /\ IsHex(q.s) /\ Len(q.s) # 64) =>
          q.res = IncorrectLength(Len(q.s) \div 2)

\* C15: a 64-character lowercase hex string round-trips; a hex string of
\* even length other than 64 fails with IncorrectLength carrying the
\* decoded byte length; a string of odd length, 63 and 65 characters
\* included, fails with the hex decoder's odd-length error.
C15_FromStrEven ==
    /\ HashRoundTrip
    /\ (q.fn = "from_str" /\ q.res # NotParsed /\ IsHex(q.s) /\ Len(q.s) # 64
          /\ Len(q.s) % 2 = 0) =>
          q.res = IncorrectLength(Len(q.s) \div 2)
    /\ (q.fn = "from_str" /\ q.res # NotParsed /\ Len(q.s) % 2 = 1) =>
          q.res = HexDecode("OddLength")

C15_Witness ==
    /\ q.fn = "from_str"
    /\ Len(q.s) = 63
    /\ IsLowerHex(q.s)
    /\ q.res = HexDecode("OddLength")

====
